---- MODULE Spec2Model ----
(***************************************************************************)
(* Model of src/Apps.js: the App component's two inputs (planchas, monto), *)
(* the useCanjes computation (greedy allocation over SCALES and the        *)
(* "cuadro aplicativo" rows) and the two control checks of App.            *)
(*                                                                         *)
(* JavaScript numbers are modelled as NaN, +Infinity, -Infinity or a       *)
(* finite rational n/d in lowest terms.  Finite arithmetic is exact        *)
(* rational arithmetic: the relative rounding error of IEEE-754 doubles    *)
(* (2^-53 per operation) and the sign of zero are not represented.         *)
(* Number(string) covers decimal literals without exponent part, the       *)
(* literal Infinity, signs and surrounding blanks.                         *)
(*                                                                         *)
(* Spec is the App: its state starts at (75, 7500) and changes through the *)
(* two number inputs.  SpecCore is useCanjes called directly on arbitrary  *)
(* arguments.                                                              *)
(***************************************************************************)
EXTENDS Integers, Sequences, FiniteSets, TLC

VARIABLES
  planchas,       \* App: the value of the "Planchas compradas" state
  monto,          \* App: the value of the "Monto total" state
  called,         \* whether useCanjes has been evaluated on (planchas, monto)
  canjes,         \* the object useCanjes returned
  locals,         \* what that evaluation did: allocated, remaining, trail, divs
  matchPlanchas,  \* App: the "Planchas cuadran" badge
  matchMonto      \* App: the "Monto cuadra" badge

vars == <<planchas, monto, called, canjes, locals, matchPlanchas, matchMonto>>

----------------------------------------------------------------------------
(* JavaScript Number values *)

RECURSIVE GCD(_, _)
GCD(a, b) == IF b = 0 THEN a ELSE GCD(b, a % b)

AbsInt(a) == IF a < 0 THEN -a ELSE a

NaN == [k |-> "nan", n |-> 0, d |-> 1]
PInf == [k |-> "pinf", n |-> 0, d |-> 1]
NInf == [k |-> "ninf", n |-> 0, d |-> 1]

\* the finite number n/d (d > 0), in lowest terms
Fin(n, d) ==
  LET g == GCD(AbsInt(n), d)
  IN  IF n = 0 THEN [k |-> "fin", n |-> 0, d |-> 1]
      ELSE [k |-> "fin", n |-> n \div g, d |-> d \div g]

Whole(n) == Fin(n, 1)
Zero == Whole(0)

IsNaN(x) == x.k = "nan"
IsFinite(x) == x.k = "fin"
IsInf(x) == x.k \in {"pinf", "ninf"}
IsInteger(x) == x.k = "fin" /\ x.d = 1

\* -1, 0, 1 for a value that is not NaN
Sign(x) ==
  CASE x.k = "pinf" -> 1
    [] x.k = "ninf" -> -1
    [] OTHER -> IF x.n > 0 THEN 1 ELSE IF x.n < 0 THEN -1 ELSE 0

Signed(s) == IF s > 0 THEN PInf ELSE NInf

Neg(x) ==
  CASE x.k = "nan" -> NaN
    [] x.k = "pinf" -> NInf
    [] x.k = "ninf" -> PInf
    [] OTHER -> [k |-> "fin", n |-> -x.n, d |-> x.d]

\* x + y
Add(x, y) ==
  IF IsNaN(x) \/ IsNaN(y) THEN NaN
  ELSE IF IsInf(x) THEN (IF IsInf(y) /\ y.k # x.k THEN NaN ELSE x)
  ELSE IF IsInf(y) THEN y
  ELSE LET g == GCD(x.d, y.d)
       IN  Fin(x.n * (y.d \div g) + y.n * (x.d \div g), (x.d \div g) * y.d)

\* x - y
Sub(x, y) == Add(x, Neg(y))

\* x * y
Mul(x, y) ==
  IF IsNaN(x) \/ IsNaN(y) THEN NaN
  ELSE IF IsInf(x) \/ IsInf(y)
       THEN (IF Sign(x) * Sign(y) = 0 THEN NaN ELSE Signed(Sign(x) * Sign(y)))
  ELSE IF x.n = 0 \/ y.n = 0 THEN Zero
  ELSE LET g1 == GCD(AbsInt(x.n), y.d)
           g2 == GCD(AbsInt(y.n), x.d)
       IN  Fin((x.n \div g1) * (y.n \div g2), (x.d \div g2) * (y.d \div g1))

\* x / y
Div(x, y) ==
  IF IsNaN(x) \/ IsNaN(y) THEN NaN
  ELSE IF IsInf(x)
       THEN (IF IsInf(y) THEN NaN
             ELSE Signed(Sign(x) * (IF Sign(y) < 0 THEN -1 ELSE 1)))
  ELSE IF IsInf(y) THEN Zero
  ELSE IF y.n = 0
       THEN (IF x.n = 0 THEN NaN ELSE Signed(Sign(x)))
  ELSE Mul(x, IF y.n > 0 THEN [k |-> "fin", n |-> y.d, d |-> y.n]
                 ELSE [k |-> "fin", n |-> -y.d, d |-> -y.n])

\* x < y
Lt(x, y) ==
  IF IsNaN(x) \/ IsNaN(y) THEN FALSE
  ELSE IF x.k = "pinf" \/ y.k = "ninf" THEN FALSE
  ELSE IF x.k = "ninf" \/ y.k = "pinf" THEN TRUE
  ELSE Sign(Sub(x, y)) < 0

\* x === y
StrictEq(x, y) == ~IsNaN(x) /\ ~IsNaN(y) /\ x = y

\* x <= y
Le(x, y) == Lt(x, y) \/ StrictEq(x, y)

\* x > y
Gt(x, y) == Lt(y, x)

\* Math.floor(x)
Floor(x) == IF IsFinite(x) THEN Whole(x.n \div x.d) ELSE x

\* Math.round(x): the nearest integer, ties towards +Infinity
Round(x) == IF IsFinite(x) THEN Floor(Add(x, Fin(1, 2))) ELSE x

\* Math.abs(x)
Abs(x) == IF IsNaN(x) THEN NaN ELSE IF IsInf(x) THEN PInf
          ELSE [k |-> "fin", n |-> AbsInt(x.n), d |-> x.d]

\* x || 0 for a number x: 0 and NaN are falsy
OrZero(x) == IF IsNaN(x) \/ (IsFinite(x) /\ x.n = 0) THEN Zero ELSE x

----------------------------------------------------------------------------
(* Number(value): values are numbers, strings (sequences of characters),   *)
(* undefined or null.                                                      *)

Digits == <<"0", "1", "2", "3", "4", "5", "6", "7", "8", "9">>

IsDigit(c) == \E i \in 1..10 : Digits[i] = c

DigitVal(c) == (CHOOSE i \in 1..10 : Digits[i] = c) - 1

RECURSIVE Pow10(_)
Pow10(e) == IF e = 0 THEN 1 ELSE 10 * Pow10(e - 1)

RECURSIVE DigitsVal(_)
DigitsVal(s) ==
  IF s = <<>> THEN 0
  ELSE 10 * DigitsVal(SubSeq(s, 1, Len(s) - 1)) + DigitVal(s[Len(s)])

RECURSIVE Trim(_)
Trim(s) ==
  IF s = <<>> THEN s
  ELSE IF Head(s) = " " THEN Trim(Tail(s))
  ELSE IF s[Len(s)] = " " THEN Trim(SubSeq(s, 1, Len(s) - 1))
  ELSE s

InfinityChars == <<"I", "n", "f", "i", "n", "i", "t", "y">>

\* an unsigned decimal literal without exponent part: digits [. digits]
UnsignedToNumber(s) ==
  LET dots == {i \in 1..Len(s) : s[i] = "."}
      dot == IF dots = {} THEN Len(s) + 1 ELSE CHOOSE i \in dots : \A j \in dots : i <= j
      ip == SubSeq(s, 1, dot - 1)
      fp == SubSeq(s, dot + 1, Len(s))
  IN  IF s = InfinityChars THEN PInf
      ELSE IF /\ \A i \in 1..Len(ip) : IsDigit(ip[i])
              /\ \A i \in 1..Len(fp) : IsDigit(fp[i])
              /\ Len(ip) + Len(fp) >= 1
           THEN Fin(DigitsVal(ip) * Pow10(Len(fp)) + DigitsVal(fp), Pow10(Len(fp)))
           ELSE NaN

\* Number(s) for a string: StringNumericLiteral (decimal, no exponent part)
StringToNumber(s) ==
  LET t == Trim(s)
  IN  IF t = <<>> THEN Zero
      ELSE IF Head(t) = "-" THEN Neg(UnsignedToNumber(Tail(t)))
      ELSE IF Head(t) = "+" THEN UnsignedToNumber(Tail(t))
      ELSE UnsignedToNumber(t)

NumberValue(x) == [t |-> "number", v |-> x, s |-> <<>>]
StringValue(s) == [t |-> "string", v |-> Zero, s |-> s]
Undefined == [t |-> "undefined", v |-> Zero, s |-> <<>>]
Null == [t |-> "null", v |-> Zero, s |-> <<>>]

\* Number(value)
ToNumber(value) ==
  CASE value.t = "number" -> value.v
    [] value.t = "string" -> StringToNumber(value.s)
    [] value.t = "undefined" -> NaN
    [] OTHER -> Zero

----------------------------------------------------------------------------
(* useCanjes *)

\* SCALES listed by ascending id (sizes 10, 35, 50)
SCALES_ById ==
  << [id |-> 1, name |-> "Escala 1", size |-> 10, weight |-> 1],
     [id |-> 2, name |-> "Escala 2", size |-> 35, weight |-> 6],
     [id |-> 3, name |-> "Escala 3", size |-> 50, weight |-> 12] >>

SCALES ==
  << [id |-> 3, name |-> "Escala 3", size |-> 50, weight |-> 12],
     [id |-> 2, name |-> "Escala 2", size |-> 35, weight |-> 6],
     [id |-> 1, name |-> "Escala 1", size |-> 10, weight |-> 1] >>

\* round2(n) for a number n
round2(n) == Div(Round(Mul(OrZero(n), Whole(100))), Whole(100))

\* the guard with planchas < 0 in place of planchas <= 0
IsSentinelInputStrict(p, m) == Lt(p, Zero) \/ Lt(m, Zero)

\* the guard of the early return
IsSentinelInput(p, m) == Le(p, Zero) \/ Lt(m, Zero)

\* the object returned by the early return
EmptyResult ==
  [unitPrice |-> Zero,
   premios |-> <<>>,
   aplicativoRows |-> <<>>,
   totales |-> [planchas |-> Zero, monto |-> Zero, premios |-> Zero]]

\* SCALES.map((s) => ({ ...s, count: 0 }))
InitialPremios ==
  [i \in 1..Len(SCALES) |->
     [id |-> SCALES[i].id, name |-> SCALES[i].name, size |-> SCALES[i].size,
      weight |-> SCALES[i].weight, count |-> Zero]]

\* the loop body with remaining -= s.size
LoopBodySubtractOnce(st, i) ==
  LET s == st.premios[i]
      count == Floor(Div(st.remaining, Whole(s.size)))
      rem == Sub(st.remaining, Whole(s.size))
  IN  [remaining |-> rem,
       premios |-> [st.premios EXCEPT ![i].count = count],
       trail |-> Append(st.trail, rem),
       divs |-> Append(st.divs, Whole(s.size))]

\* the loop body with Math.round in place of Math.floor
LoopBodyRound(st, i) ==
  LET s == st.premios[i]
      count == Round(Div(st.remaining, Whole(s.size)))
      rem == Sub(st.remaining, Mul(count, Whole(s.size)))
  IN  [remaining |-> rem,
       premios |-> [st.premios EXCEPT ![i].count = count],
       trail |-> Append(st.trail, rem),
       divs |-> Append(st.divs, Whole(s.size))]

\* One iteration of the allocation loop on st = [remaining, premios, trail,
\* divs]; trail records the value of remaining after each iteration and
\* divs the divisors of the divisions evaluated.
LoopBody(st, i) ==
  LET s == st.premios[i]
      count == Floor(Div(st.remaining, Whole(s.size)))
      rem == Sub(st.remaining, Mul(count, Whole(s.size)))
  IN  [remaining |-> rem,
       premios |-> [st.premios EXCEPT ![i].count = count],
       trail |-> Append(st.trail, rem),
       divs |-> Append(st.divs, Whole(s.size))]

\* for (let i = 0; i < premios.length; i++) { ... }
RECURSIVE Loop(_, _)
Loop(i, st) == IF i > Len(st.premios) THEN st ELSE Loop(i + 1, LoopBody(st, i))

\* premios.reduce((acc, s) => acc + s.count * s.weight, 0)
RECURSIVE TotalPremios(_, _)
TotalPremios(premios, i) ==
  IF i = 0 THEN Zero
  ELSE Add(TotalPremios(premios, i - 1),
           Mul(premios[i].count, Whole(premios[i].weight)))

\* premios.some((p) => p.count > 0)
AnyCount(premios) == \E i \in 1..Len(premios) : Gt(premios[i].count, Zero)

\* the first scale with count > 0 in place of the last
LastIdxFirst(premios) ==
  LET used == {i \in 1..Len(premios) : Gt(premios[i].count, Zero)}
  IN  IF used = {} THEN 0 ELSE CHOOSE i \in used : \A j \in used : i <= j

\* index (from 1) of the last scale with count > 0; 0 stands for -1
LastIdx(premios) ==
  LET used == {i \in 1..Len(premios) : Gt(premios[i].count, Zero)}
  IN  IF used = {} THEN 0 ELSE CHOOSE i \in used : \A j \in used : j <= i

\* the "caso extremo" row carrying the size of the scale
ExtremeRowTierSize(p, unitPrice) ==
  [label |-> "Escala 1",
   repetir |-> Whole(1),
   planchasPorRep |-> Whole(10),
   montoPorRep |-> Mul(Whole(10), unitPrice)]

\* the row of the "caso extremo" branch
ExtremeRow(p, unitPrice) ==
  [label |-> "Escala 1",
   repetir |-> Whole(1),
   planchasPorRep |-> p,
   montoPorRep |-> Mul(p, unitPrice)]

\* planchasPorRep without the spreading of the remainder
PlanchasPorRepNoSpread(p, idx, lastIdx, remaining) == Whole(p.size)

\* planchasPorRep with the remainder's share subtracted
PlanchasPorRepMinus(p, idx, lastIdx, remaining) ==
  IF idx = lastIdx /\ Gt(remaining, Zero)
  THEN Sub(Whole(p.size), Div(remaining, p.count))
  ELSE Whole(p.size)

\* planchasPorRep of scale idx in the forEach callback
PlanchasPorRep(p, idx, lastIdx, remaining) ==
  IF idx = lastIdx /\ Gt(remaining, Zero)
  THEN Add(Whole(p.size), Div(remaining, p.count))
  ELSE Whole(p.size)

\* the forEach callback with montoPorRep = p.size * unitPrice
RowsOfSizeAmount(p, idx, lastIdx, remaining, unitPrice) ==
  IF StrictEq(p.count, Zero) THEN <<>>
  ELSE << [label |-> p.name,
           repetir |-> p.count,
           planchasPorRep |-> PlanchasPorRep(p, idx, lastIdx, remaining),
           montoPorRep |-> Mul(Whole(p.size), unitPrice)] >>

\* the forEach callback: the rows pushed for scale idx (none or one)
RowsOf(p, idx, lastIdx, remaining, unitPrice) ==
  IF StrictEq(p.count, Zero) THEN <<>>
  ELSE LET ppr == PlanchasPorRep(p, idx, lastIdx, remaining)
       IN  << [label |-> p.name,
               repetir |-> p.count,
               planchasPorRep |-> ppr,
               montoPorRep |-> Mul(ppr, unitPrice)] >>

\* premios.forEach(...) up to and including index n
RECURSIVE ForEachRows(_, _, _, _, _)
ForEachRows(premios, n, lastIdx, remaining, unitPrice) ==
  IF n = 0 THEN <<>>
  ELSE ForEachRows(premios, n - 1, lastIdx, remaining, unitPrice)
         \o RowsOf(premios[n], n, lastIdx, remaining, unitPrice)

\* the divisors of the divisions evaluated by the forEach callback
ForEachDivs(premios, lastIdx, remaining) ==
  IF /\ lastIdx > 0
     /\ ~StrictEq(premios[lastIdx].count, Zero)
     /\ Gt(remaining, Zero)
  THEN <<premios[lastIdx].count>>
  ELSE <<>>

\* aplicativoRows.reduce(...) from row i on, with accumulator acc
RECURSIVE Reduce(_, _, _)
Reduce(rows, i, acc) ==
  IF i > Len(rows) THEN acc
  ELSE Reduce(rows, i + 1,
              [planchas |-> Add(acc.planchas, Mul(rows[i].planchasPorRep, rows[i].repetir)),
               monto |-> Add(acc.monto, Mul(rows[i].montoPorRep, rows[i].repetir))])

\* { planchas: round2(...), monto: round2(...), premios: totalPremios } of reduced
Rounded(reduced, totalPremios) ==
  [planchas |-> round2(reduced.planchas),
   monto |-> round2(reduced.monto),
   premios |-> totalPremios]

\* the totales of the returned object
Totales(rows, n, premios) ==
  Rounded(Reduce(rows, 1, [planchas |-> Zero, monto |-> Zero]),
          TotalPremios(premios, Len(premios)))

\* the early return: nothing is allocated and nothing is divided
SentinelRun ==
  [ret |-> EmptyResult, allocated |-> FALSE, remaining |-> Zero,
   trail |-> <<>>, divs |-> <<>>]

\* the tail of useCanjes: the control totals and the returned object
Finish(unitPrice, loop, aplicativoRows, rowDivs) ==
  [ret |->
     [unitPrice |-> unitPrice,
      premios |-> loop.premios,
      aplicativoRows |-> aplicativoRows,
      totales |-> Totales(aplicativoRows, Len(aplicativoRows), loop.premios)],
   allocated |-> TRUE,
   remaining |-> loop.remaining,
   trail |-> loop.trail,
   divs |-> loop.divs \o rowDivs \o <<Whole(100), Whole(100)>>]

\* the rows of the "cuadro aplicativo" and the returned object
Build(p, unitPrice, loop) ==
  IF ~AnyCount(loop.premios)
  THEN Finish(unitPrice, loop, <<ExtremeRow(p, unitPrice)>>, <<>>)
  ELSE Finish(unitPrice, loop,
              ForEachRows(loop.premios, Len(loop.premios), LastIdx(loop.premios),
                          loop.remaining, unitPrice),
              ForEachDivs(loop.premios, LastIdx(loop.premios), loop.remaining))

\* the body of useCanjes after the early return, for numbers p and m
ComputeRun(p, m) ==
  Build(p, Div(m, p),
        Loop(1, [remaining |-> p, premios |-> InitialPremios,
                 trail |-> <<>>, divs |-> <<p>>]))

\* One evaluation of the useMemo callback: the returned object (ret) and
\* what the evaluation did (allocated, remaining, trail, divs).
UseCanjesRun(planchasInput, montoInput) ==
  LET p == OrZero(ToNumber(planchasInput))
      m == OrZero(ToNumber(montoInput))
  IN  IF IsSentinelInput(p, m) THEN SentinelRun ELSE ComputeRun(p, m)

\* useCanjes(planchasInput, montoInput)
useCanjes(planchasInput, montoInput) == UseCanjesRun(planchasInput, montoInput).ret

----------------------------------------------------------------------------
(* App *)

\* Math.abs((Number(input) || 0) - (total || 0)) < 0.01
Match(input, total) ==
  Lt(Abs(Sub(OrZero(ToNumber(input)), OrZero(total))), Fin(1, 100))

\* One render of App with state (p, m): useCanjes and the two badges.
Render(p, m) ==
  \E run \in {UseCanjesRun(p, m)} :
      /\ called' = TRUE
      /\ canjes' = run.ret
      /\ locals' = [allocated |-> run.allocated, remaining |-> run.remaining,
                    trail |-> run.trail, divs |-> run.divs]
      /\ matchPlanchas' = Match(p, run.ret.totales.planchas)
      /\ matchMonto' = Match(m, run.ret.totales.monto)

(* Bounds of the values typed into the two number inputs *)
MaxPlanchas == 106
MaxNegative == 2

RECURSIVE DecStr(_)
\* the decimal digits of a natural number
DecStr(n) ==
  IF n < 10 THEN <<Digits[n + 1]>>
  ELSE DecStr(n \div 10) \o <<Digits[(n % 10) + 1]>>

\* e.target.value of the "Planchas compradas" number input: the empty string
\* or a valid floating-point number string
PlanchasTyped ==
  {<<>>, <<"0", ".", "0", "0", "4">>, <<"7", ".", "5">>, <<"1", "2", ".", "5">>,
   <<"8", "4", ".", "2", "5">>, <<"9", "9", ".", "9">>}
    \cup {DecStr(n) : n \in 0..MaxPlanchas}
    \cup {<<"-">> \o DecStr(n) : n \in 1..MaxNegative}

\* e.target.value of the "Monto total" number input
MontoTyped ==
  {<<>>, <<"-", "1">>, <<"9", "9", ".", "9", "9">>, <<"7", "5", "0", "0">>}

\* useState(75), useState(7500) and the first render
Init ==
  /\ planchas = NumberValue(Whole(75))
  /\ monto = NumberValue(Whole(7500))
  /\ called = TRUE
  /\ \E run \in {UseCanjesRun(planchas, monto)} :
       /\ canjes = run.ret
       /\ locals = [allocated |-> run.allocated, remaining |-> run.remaining,
                    trail |-> run.trail, divs |-> run.divs]
       /\ matchPlanchas = Match(planchas, run.ret.totales.planchas)
       /\ matchMonto = Match(monto, run.ret.totales.monto)

\* onChange of the first input: setPlanchas(e.target.value), then a render
SetPlanchas ==
  \E s \in PlanchasTyped :
    /\ planchas' = StringValue(s)
    /\ monto' = monto
    /\ Render(planchas', monto')

\* onChange of the second input: setMonto(e.target.value), then a render
SetMonto ==
  \E s \in MontoTyped :
    /\ monto' = StringValue(s)
    /\ planchas' = planchas
    /\ Render(planchas', monto')

Next == SetPlanchas \/ SetMonto

Spec == Init /\ [][Next]_vars

----------------------------------------------------------------------------
(* useCanjes as a function of arbitrary arguments *)

MaxCore == 9

\* arguments of a direct call: numbers (finite or not), strings, undefined, null
CoreValues ==
  {NumberValue(NaN), NumberValue(PInf), NumberValue(NInf), Undefined, Null,
   StringValue(<<"a", "b", "c">>), StringValue(InfinityChars),
   StringValue(<<"-">> \o InfinityChars), StringValue(<<>>),
   StringValue(<<" ", "7", "5", " ">>)}
    \cup {NumberValue(Whole(10 * n - 5)) : n \in 0..MaxCore}

InitCore ==
  /\ planchas \in CoreValues
  /\ monto \in CoreValues
  /\ called = FALSE
  /\ canjes = <<>>
  /\ locals = <<>>
  /\ matchPlanchas = FALSE
  /\ matchMonto = FALSE

\* useCanjes(planchas, monto) and the badges computed from it
CallUseCanjes ==
  /\ ~called
  /\ UNCHANGED <<planchas, monto>>
  /\ Render(planchas, monto)

NextCore == CallUseCanjes

SpecCore == InitCore /\ [][NextCore]_vars

----------------------------------------------------------------------------
(* Properties *)

\* count and totalAmount: the two inputs as useCanjes reads them
CountNum == OrZero(ToNumber(planchas))
AmountNum == OrZero(ToNumber(monto))

\* count > 0 and totalAmount >= 0
ValidInput == Gt(CountNum, Zero) /\ Le(Zero, AmountNum)

\* |x - y| < 0.01
Within(x, y) == Lt(Abs(Sub(x, y)), Fin(1, 100))

RECURSIVE SumPlanchas(_)
\* sum over the rows of planchasPorRep x repetir
SumPlanchas(rows) ==
  IF rows = <<>> THEN Zero
  ELSE Add(Mul(Head(rows).planchasPorRep, Head(rows).repetir), SumPlanchas(Tail(rows)))

RECURSIVE SumMonto(_)
\* sum over the rows of montoPorRep x repetir
SumMonto(rows) ==
  IF rows = <<>> THEN Zero
  ELSE Add(Mul(Head(rows).montoPorRep, Head(rows).repetir), SumMonto(Tail(rows)))

\* the sizes of the three tiers, in the order of the claims
TierSizes == <<Whole(50), Whole(35), Whole(10)>>

\* size of the tier a row label names
SizeOfLabel(label) ==
  CASE label = "Escala 3" -> Whole(50)
    [] label = "Escala 2" -> Whole(35)
    [] label = "Escala 1" -> Whole(10)

\* at least one tier of the returned allocation has a non-zero count
SomeTierUsed == \E i \in 1..Len(canjes.premios) : canjes.premios[i].count # Zero

\* C1: for count > 0 and totalAmount >= 0 the rows' planchasPorRep x repetir
\* add up to count within 0.01, and the "Planchas cuadran" badge is on.
C1_PlanchasCuadran ==
  ValidInput =>
    /\ Within(SumPlanchas(canjes.aplicativoRows), CountNum)
    /\ matchPlanchas

C1_Witness ==
  /\ ValidInput
  /\ planchas.t = "string"
  /\ ~IsInteger(CountNum)
  /\ Len(canjes.aplicativoRows) = 2
  /\ Gt(locals.remaining, Zero)
  /\ matchPlanchas

\* C2: for count > 0 and totalAmount >= 0 every row has montoPorRep =
\* planchasPorRep x (totalAmount / count), and montoPorRep x repetir adds up
\* to totalAmount within 0.01.
C2_MontoCuadra ==
  ValidInput =>
    /\ \A j \in 1..Len(canjes.aplicativoRows) :
         canjes.aplicativoRows[j].montoPorRep =
           Mul(canjes.aplicativoRows[j].planchasPorRep, Div(AmountNum, CountNum))
    /\ Within(SumMonto(canjes.aplicativoRows), AmountNum)

C2_Witness ==
  /\ ValidInput
  /\ ~IsInteger(AmountNum)
  /\ Gt(locals.remaining, Zero)
  /\ Len(canjes.aplicativoRows) = 3

\* C3: for an integer count > 0, after the loop
\* count(50) x 50 + count(35) x 35 + count(10) x 10 + remaining = count.
C3_Reconstruction ==
  (ValidInput /\ IsInteger(CountNum)) =>
    /\ locals.allocated
    /\ Len(canjes.premios) = 3
    /\ \A i \in 1..3 : Whole(canjes.premios[i].size) = TierSizes[i]
    /\ Add(Add(Add(Mul(canjes.premios[1].count, Whole(50)),
                   Mul(canjes.premios[2].count, Whole(35))),
               Mul(canjes.premios[3].count, Whole(10))),
           locals.remaining) = CountNum

C3_Witness ==
  /\ ValidInput
  /\ CountNum = Whole(99)
  /\ canjes.premios[1].count = Whole(1)
  /\ canjes.premios[2].count = Whole(1)
  /\ canjes.premios[3].count = Whole(1)
  /\ locals.remaining = Whole(4)

\* C4: the tiers are processed in the order 50, 35, 10, each is awarded
\* floor(remaining / size), the remainder r after a tier satisfies
\* 0 <= r < size of that tier, the final remainder is in [0, 10), and
\* count 84 yields 50:1, 35:0, 10:3 with remainder 4.
C4_GreedyOrder ==
  ValidInput =>
    /\ locals.allocated
    /\ Len(locals.trail) = 3
    /\ Len(canjes.premios) = 3
    /\ \A i \in 1..3 :
         LET before == IF i = 1 THEN CountNum ELSE locals.trail[i - 1]
         IN  /\ Whole(canjes.premios[i].size) = TierSizes[i]
             /\ canjes.premios[i].count = Floor(Div(before, TierSizes[i]))
             /\ Le(Zero, locals.trail[i])
             /\ Lt(locals.trail[i], TierSizes[i])
    /\ locals.remaining = locals.trail[3]
    /\ Le(Zero, locals.remaining)
    /\ Lt(locals.remaining, Whole(10))
    /\ (CountNum = Whole(84) =>
          /\ canjes.premios[1].count = Whole(1)
          /\ canjes.premios[2].count = Zero
          /\ canjes.premios[3].count = Whole(3)
          /\ locals.remaining = Whole(4))

C4_Witness ==
  /\ CountNum = Whole(84)
  /\ locals.allocated
  /\ locals.trail = <<Whole(34), Whole(34), Whole(4)>>

\* C5: if count <= 0 or totalAmount < 0 the result is the empty sentinel
\* (unitPrice 0, no allocation, no rows, totals 0), nothing is allocated and
\* no division is evaluated.
C5_Sentinel ==
  (Le(CountNum, Zero) \/ Lt(AmountNum, Zero)) =>
    /\ canjes.unitPrice = Zero
    /\ canjes.premios = <<>>
    /\ canjes.aplicativoRows = <<>>
    /\ canjes.totales = [planchas |-> Zero, monto |-> Zero, premios |-> Zero]
    /\ ~locals.allocated
    /\ locals.divs = <<>>

C5_Witness ==
  /\ CountNum = Zero
  /\ Gt(AmountNum, Zero)
  /\ canjes.aplicativoRows = <<>>
  /\ locals.divs = <<>>

\* an argument that is NaN, non-numeric, +Infinity or -Infinity
NotFinite(value) == ~IsFinite(ToNumber(value))

\* C6: an argument that is NaN, non-numeric, +Infinity or -Infinity gives
\* the same result as that argument replaced by 0.
C6_NonFiniteAsZero ==
  called =>
    /\ NotFinite(planchas) => canjes = useCanjes(NumberValue(Zero), monto)
    /\ NotFinite(monto) => canjes = useCanjes(planchas, NumberValue(Zero))

\* C7 as stated: every row has planchasPorRep >= the size of the tier it
\* is labelled with.
C7_RowAtLeastTierSize ==
  \A j \in 1..Len(canjes.aplicativoRows) :
    Le(SizeOfLabel(canjes.aplicativoRows[j].label),
       canjes.aplicativoRows[j].planchasPorRep)

\* C7 amended: when at least one tier has a non-zero count every row has
\* planchasPorRep >= the size of its tier; otherwise (0 < count < 10) the
\* single row is labelled "Escala 1" and has planchasPorRep = count < 10.
C7_RowAtLeastTierSizeWhenUsed ==
  /\ SomeTierUsed => C7_RowAtLeastTierSize
  /\ (ValidInput /\ ~SomeTierUsed) =>
       /\ Len(canjes.aplicativoRows) = 1
       /\ canjes.aplicativoRows[1].label = "Escala 1"
       /\ canjes.aplicativoRows[1].planchasPorRep = CountNum
       /\ Lt(CountNum, Whole(10))

C7_Witness ==
  /\ SomeTierUsed
  /\ Len(canjes.aplicativoRows) = 3
  /\ \E j \in 1..Len(canjes.aplicativoRows) :
       Lt(SizeOfLabel(canjes.aplicativoRows[j].label),
          canjes.aplicativoRows[j].planchasPorRep)

\* C8: when 0 < count < 10 (and totalAmount >= 0) every tier's count is 0
\* and the output is the single row "Escala 1", repetir 1, planchasPorRep =
\* count, montoPorRep = count x unitPrice.
C8_ExtremeCase ==
  (ValidInput /\ Lt(CountNum, Whole(10))) =>
    /\ \A i \in 1..Len(canjes.premios) : canjes.premios[i].count = Zero
    /\ canjes.unitPrice = Div(AmountNum, CountNum)
    /\ canjes.aplicativoRows =
         << [label |-> "Escala 1",
             repetir |-> Whole(1),
             planchasPorRep |-> CountNum,
             montoPorRep |-> Mul(CountNum, canjes.unitPrice)] >>

C8_Witness ==
  /\ CountNum = Whole(7)
  /\ AmountNum = Whole(7500)
  /\ Len(canjes.aplicativoRows) = 1
  /\ canjes.aplicativoRows[1].planchasPorRep = Whole(7)

\* the indices of the tiers with a non-zero count, in tier order
UsedTiers == SelectSeq(<<1, 2, 3>>, LAMBDA i : canjes.premios[i].count # Zero)

BestScore(n) ==
  LET feasible == {<<a, b, c>> \in (0..(n \div 50)) \X (0..(n \div 35)) \X (0..(n \div 10)) :
                     50 * a + 35 * b + 10 * c <= n}
      best == CHOOSE t \in feasible :
                \A u \in feasible :
                  12 * u[1] + 6 * u[2] + u[3] <= 12 * t[1] + 6 * t[2] + t[3]
  IN  12 * best[1] + 6 * best[2] + best[3]

\* C10: for an integer count > 0 the reported total 12 x count(50) +
\* 6 x count(35) + count(10) is the maximum of 12a + 6b + c over naturals
\* a, b, c with 50a + 35b + 10c <= count.
C10_GreedyIsOptimal ==
  (ValidInput /\ IsInteger(CountNum)) =>
    /\ canjes.totales.premios =
         Add(Add(Mul(canjes.premios[1].count, Whole(12)),
                 Mul(canjes.premios[2].count, Whole(6))),
             canjes.premios[3].count)
    /\ canjes.totales.premios = Whole(BestScore(CountNum.n))

C10_Witness ==
  /\ CountNum = Whole(105)
  /\ canjes.totales.premios = Whole(24)
  /\ locals.remaining = Whole(5)

====
